---- MODULE Spec2Model ----
(***************************************************************************)
(* S3Cache (storage-bigtable/src/cache/s3.rs): a cache in front of a       *)
(* sorted table store, kept in an object store that only offers get, put   *)
(* and "list keys with this prefix, strictly after this key, at most N".   *)
(*                                                                         *)
(* Strings are sequences of ASCII codes, so that the byte order of the     *)
(* object store, the character tests of previous_alphanumeric and the      *)
(* prefix trimming of get_keys are computed and not assumed.               *)
(***************************************************************************)
EXTENDS Integers, Sequences, FiniteSets, TLC

VARIABLES store, op, args, res, reqs

vars == <<store, op, args, res, reqs>>

---------------------------------------------------------------------------
(* Bounds of the model.                                                    *)

MaxKeyLen == 1

MaxObjects == 2

MaxLimit == 2

MaxRows == 2

MaxBatch == 2

MaxCodecLen == 2

MaxPredLen == 3

---------------------------------------------------------------------------
(* Characters and strings.                                                 *)

Ascii ==
  [slash |-> 47, zero |-> 48, two |-> 50, nine |-> 57, A |-> 65, Z |-> 90,
   a |-> 97, b |-> 98, p |-> 112, t |-> 116, z |-> 122]

\* char::is_ascii_lowercase
is_ascii_lowercase(c) == c \in Ascii.a .. Ascii.z

\* char::is_ascii_alphabetic
is_ascii_alphabetic(c) == c \in Ascii.A .. Ascii.Z \/ is_ascii_lowercase(c)

\* Byte-lexicographic order of two strings (the object store's key order).
LexLess(x, y) ==
  \E i \in 1 .. (Len(x) + 1) :
    /\ \A j \in 1 .. (i - 1) : j <= Len(y) /\ x[j] = y[j]
    /\ \/ i = Len(x) + 1 /\ Len(y) >= i
       \/ i <= Len(x) /\ i <= Len(y) /\ x[i] < y[i]

\* str::starts_with
StartsWith(s, pat) == Len(s) >= Len(pat) /\ SubSeq(s, 1, Len(pat)) = pat

\* str::trim_start_matches: every leading repetition of pat is removed.
RECURSIVE trim_start_matches(_, _)
trim_start_matches(s, pat) ==
  IF pat # <<>> /\ StartsWith(s, pat)
  THEN trim_start_matches(SubSeq(s, Len(pat) + 1, Len(s)), pat)
  ELSE s

\* Option<T>: None is the empty sequence, Some(v) the one-element sequence.
None == <<>>

Some(v) == <<v>>

unwrap_or(o, d) == IF o = None THEN d ELSE o[1]

\* Result<T, CacheError> of a handler, and the abort of an unwrap on Err.
Ok(v) == [kind |-> "Ok", val |-> v]

Err(e) == [kind |-> "Err", err |-> e]

Panic == [kind |-> "Panic"]

---------------------------------------------------------------------------
(* Configuration of the handle and the inputs the callers draw from.       *)

\* self.prefix
Prefix == <<Ascii.p>>

\* table_name: "t" and "t2"; the first is a string prefix of the second.
Tables == {<<Ascii.t>>, <<Ascii.t, Ascii.two>>}

\* The characters row keys are drawn from: the separator, which the decode
\* step of get_keys trims, and a letter that previous_alphanumeric decrements.
Chars == {Ascii.slash, Ascii.b}

RECURSIVE StringsUpTo(_)
StringsUpTo(n) ==
  IF n = 0 THEN {<<>>}
  ELSE LET shorter == StringsUpTo(n - 1)
       IN  shorter \cup {Append(s, c) : s \in shorter, c \in Chars}

\* RowKey: an opaque non-empty string.
RowKeys == StringsUpTo(MaxKeyLen) \ {<<>>}

KeyBounds == {None} \cup {Some(k) : k \in RowKeys}

Limits == 0 .. MaxLimit

\* format!("{}/{}/{}", prefix, table_name, row_key) for any handle prefix
format_key(prefix, table_name, row_key) ==
  prefix \o <<Ascii.slash>> \o table_name \o <<Ascii.slash>> \o row_key

\* format!("{}/{}", prefix, table_name) for any handle prefix
format_prefix(prefix, table_name) == prefix \o <<Ascii.slash>> \o table_name

\* format!("{}/{}/{}", self.prefix, table_name, row_key)
StorageKey(table_name, row_key) ==
  Prefix \o <<Ascii.slash>> \o table_name \o <<Ascii.slash>> \o row_key

\* format!("{}/{}", self.prefix, table_name)
ListPrefix(table_name) == Prefix \o <<Ascii.slash>> \o table_name

---------------------------------------------------------------------------
(* previous_alphanumeric                                                   *)

\* The scan without the borrow: an 'a' or an uppercase letter is left as it
\* is and the scan moves on.
RECURSIVE PrevScan_no_borrow(_, _)
PrevScan_no_borrow(result, i) ==
  IF i = 0 THEN result
  ELSE IF is_ascii_alphabetic(result[i]) /\ result[i] > Ascii.a
       THEN [result EXCEPT ![i] = result[i] - 1]
       ELSE PrevScan_no_borrow(result, i - 1)

RECURSIVE PrevScan(_, _)
PrevScan(result, i) ==
  IF i = 0 THEN result
  ELSE IF is_ascii_alphabetic(result[i])
       THEN IF result[i] > Ascii.a
            THEN [result EXCEPT ![i] = result[i] - 1]
            ELSE PrevScan([result EXCEPT ![i] =
                             IF is_ascii_lowercase(result[i])
                             THEN Ascii.z ELSE Ascii.nine], i - 1)
       ELSE PrevScan(result, i - 1)

\* previous_alphanumeric without the all-zeros case.
previous_alphanumeric_no_sentinel(input) == PrevScan(input, Len(input))

previous_alphanumeric(input) ==
  IF \A i \in 1 .. Len(input) : input[i] = Ascii.zero
  THEN <<>>
  ELSE PrevScan(input, Len(input))

---------------------------------------------------------------------------
(* The object store backend: list_objects_v2, get_object, put_object.      *)

RECURSIVE SortedKeys(_)
SortedKeys(S) ==
  IF S = {} THEN <<>>
  ELSE LET m == CHOOSE x \in S : \A y \in S \ {x} : LexLess(x, y)
       IN  <<m>> \o SortedKeys(S \ {m})

Take(s, n) == SubSeq(s, 1, IF n < Len(s) THEN n ELSE Len(s))

\* list_objects_v2().prefix(p).start_after(after).max_keys(n): the keys that
\* start with p and sort strictly after `after`, ascending, at most n.
list_objects_v2(st, pfx, after, max_keys) ==
  Take(SortedKeys({k \in DOMAIN st : StartsWith(k, pfx) /\ LexLess(after, k)}),
       max_keys)

\* One request to the backend, as the handlers issue it, with its outcome.
ListReq(pfx, after, max_keys, ok, contents) ==
  [api |-> "list", prefix |-> pfx, start_after |-> after,
   max_keys |-> max_keys, ok |-> ok, contents |-> contents]

GetReq(key, out) == [api |-> "get", key |-> key, out |-> out]

PutReq(key, object, ok) == [api |-> "put", key |-> key, object |-> object, ok |-> ok]

---------------------------------------------------------------------------
(* S3Cache::get_keys                                                       *)

\* The key codec's decode step of get_keys.
DecodeKey(key_string, pfx) ==
  trim_start_matches(trim_start_matches(key_string, pfx), <<Ascii.slash>>)

\* The loop over storage_keys.contents().
RECURSIVE CollectKeys(_, _, _, _, _, _)
CollectKeys(contents, i, keys, end_key, keys_limit, pfx) ==
  IF i > Len(contents) THEN keys
  ELSE IF contents[i] = end_key THEN keys
  ELSE IF Len(keys) >= keys_limit THEN keys
  ELSE CollectKeys(contents, i + 1, Append(keys, DecodeKey(contents[i], pfx)),
                   end_key, keys_limit, pfx)

\* get_keys with its limit off by one: max_keys(keys_limit + 1) and a loop
\* that stops only once more than keys_limit keys are held.
get_keys_limit_off_by_one(st, table_name, start_at, end_at, keys_limit, listOk) ==
  LET prefix == ListPrefix(table_name)
      full_start_key == prefix \o <<Ascii.slash>> \o
                          previous_alphanumeric(unwrap_or(start_at, <<>>))
      contents == list_objects_v2(st, prefix, full_start_key, keys_limit + 1)
  IN  IF ~listOk
      THEN [res |-> Err("CacheReadFailed"),
            reqs |-> <<ListReq(prefix, full_start_key, keys_limit + 1, FALSE, <<>>)>>]
      ELSE [res |-> Ok(CollectKeys(contents, 1, <<>>, unwrap_or(end_at, <<>>),
                                   keys_limit + 1, prefix)),
            reqs |-> <<ListReq(prefix, full_start_key, keys_limit + 1, TRUE, contents)>>]

\* listOk: whether the backend listing call succeeds.  The limits drawn are
\* small and non-negative, so `keys_limit as i32` and `keys_limit as usize`
\* are the identity, and the backend's own page size is never reached.
get_keys(st, table_name, start_at, end_at, keys_limit, listOk) ==
  LET start_key == unwrap_or(start_at, <<>>)
      end_key == unwrap_or(end_at, <<>>)
      prefix == ListPrefix(table_name)
      before_start_key == previous_alphanumeric(start_key)
      full_start_key == prefix \o <<Ascii.slash>> \o before_start_key
      contents == list_objects_v2(st, prefix, full_start_key, keys_limit)
  IN  IF ~listOk
      THEN [res |-> Err("CacheReadFailed"),
            reqs |-> <<ListReq(prefix, full_start_key, keys_limit, FALSE, <<>>)>>]
      ELSE [res |-> Ok(CollectKeys(contents, 1, <<>>, end_key, keys_limit, prefix)),
            reqs |-> <<ListReq(prefix, full_start_key, keys_limit, TRUE, contents)>>]

\* S3Cache::get_row_keys
get_row_keys(st, table_name, start_at, end_at, rows_limit, listOk) ==
  get_keys(st, table_name, start_at, end_at, rows_limit, listOk)

\* S3Cache::row_key_exists
row_key_exists(st, table_name, row_key, listOk) ==
  LET key == StorageKey(table_name, row_key)
      listed == get_keys(st, table_name, Some(key), None, 1, listOk)
  IN  IF listed.res.kind # "Ok" THEN listed
      ELSE LET storage_key == listed.res.val
           IN  [res |-> Ok(Len(storage_key) > 0 /\ storage_key[1] = row_key),
                reqs |-> listed.reqs]

---------------------------------------------------------------------------
(* S3Cache::get_single_row_data and the two batch reads                    *)

\* What can go wrong with one get_object: the send fails, or the send
\* succeeds and collecting the body fails.
FaultKinds == {"send", "body"}

\* get_single_row_data that answers a missing object with an empty row.
get_single_row_data_empty_when_absent(st, table_name, row_key, fault) ==
  LET key == StorageKey(table_name, row_key)
  IN  IF fault = "send"
      THEN [res |-> Err("CacheReadFailed"), reqs |-> <<GetReq(key, "error")>>]
      ELSE IF key \notin DOMAIN st
      THEN [res |-> Ok(<<>>), reqs |-> <<GetReq(key, "notfound")>>]
      ELSE IF fault = "body"
      THEN [res |-> Panic, reqs |-> <<GetReq(key, "bodyerr")>>]
      ELSE [res |-> Ok(<< <<"proto", st[key].body>> >>),
            reqs |-> <<GetReq(key, "ok")>>]

\* fault: "none", or the kind of fault the backend raises for this get.
get_single_row_data(st, table_name, row_key, fault) ==
  LET key == StorageKey(table_name, row_key)
  IN  IF fault = "send"
      THEN [res |-> Err("CacheReadFailed"), reqs |-> <<GetReq(key, "error")>>]
      ELSE IF key \notin DOMAIN st
      THEN [res |-> Err("CacheReadFailed"), reqs |-> <<GetReq(key, "notfound")>>]
      ELSE IF fault = "body"
      THEN [res |-> Panic, reqs |-> <<GetReq(key, "bodyerr")>>]
      ELSE [res |-> Ok(<< <<"proto", st[key].body>> >>),
            reqs |-> <<GetReq(key, "ok")>>]

\* The `for row_key in ...` loop shared by get_multi_row_data and
\* get_row_data; fault.at is the position of the get the backend fails.
\* The loop without the early return: every key is fetched and the failure
\* is reported at the end.
RECURSIVE FetchLoop_no_abort(_, _, _, _, _, _, _)
FetchLoop_no_abort(st, table_name, row_keys, i, results, log, fault) ==
  IF i > Len(row_keys)
  THEN [res |-> IF \A j \in 1 .. Len(log) :
                     log[j].api = "get" => log[j].out = "ok"
                THEN Ok(results) ELSE Err("CacheReadFailed"),
        reqs |-> log]
  ELSE LET row_data == get_single_row_data(st, table_name, row_keys[i],
                         IF fault.at = i THEN fault.kind ELSE "none")
       IN  FetchLoop_no_abort(st, table_name, row_keys, i + 1,
             IF row_data.res.kind = "Ok"
             THEN Append(results, <<row_keys[i], row_data.res.val>>)
             ELSE results,
             log \o row_data.reqs, fault)

RECURSIVE FetchLoop(_, _, _, _, _, _, _)
FetchLoop(st, table_name, row_keys, i, results, log, fault) ==
  IF i > Len(row_keys) THEN [res |-> Ok(results), reqs |-> log]
  ELSE LET row_data == get_single_row_data(st, table_name, row_keys[i],
                         IF fault.at = i THEN fault.kind ELSE "none")
       IN  IF row_data.res.kind = "Ok"
           THEN FetchLoop(st, table_name, row_keys, i + 1,
                          Append(results, <<row_keys[i], row_data.res.val>>),
                          log \o row_data.reqs, fault)
           ELSE IF row_data.res.kind = "Err"
           THEN [res |-> Err("CacheReadFailed"), reqs |-> log \o row_data.reqs]
           ELSE [res |-> Panic, reqs |-> log \o row_data.reqs]

get_multi_row_data(st, table_name, row_keys, fault) ==
  FetchLoop(st, table_name, row_keys, 1, <<>>, <<>>, fault)

get_row_data(st, table_name, start_at, end_at, rows_limit, listOk, fault) ==
  LET keys == get_keys(st, table_name, start_at, end_at, rows_limit, listOk)
  IN  IF keys.res.kind # "Ok" THEN keys
      ELSE FetchLoop(st, table_name, keys.res.val, 1, <<>>, keys.reqs,
                     fault)

---------------------------------------------------------------------------
(* S3Cache::put_row_data                                                   *)

\* RowData: a sequence of <<column_key, column_value>> pairs.
RECURSIVE ConcatValues(_)
ConcatValues(data) ==
  IF data = <<>> THEN <<>> ELSE data[1][2] \o ConcatValues(Tail(data))

\* Each column overwrites the "encoding" tag; the last one is kept.
EncodingTag(data) == IF data = <<>> THEN None ELSE Some(data[Len(data)][1])

WriteObject(st, key, object) ==
  [k \in DOMAIN st \cup {key} |-> IF k = key THEN object ELSE st[k]]

\* put_row_data that goes through every entry of row_data before returning.
RECURSIVE PutAllRows(_, _, _, _, _, _)
PutAllRows(st, table_name, family_name, row_data, putOk, log) ==
  IF row_data = <<>> THEN [res |-> Ok(<<>>), reqs |-> log, store |-> st]
  ELSE LET data == row_data[1][2]
           full_key == StorageKey(table_name, row_data[1][1])
           object == [body |-> ConcatValues(data), family |-> family_name,
                      encoding |-> EncodingTag(data)]
       IN  PutAllRows(IF putOk THEN WriteObject(st, full_key, object) ELSE st,
                      table_name, family_name, Tail(row_data), putOk,
                      Append(log, PutReq(full_key, object, putOk)))

put_row_data_all_rows(st, table_name, family_name, row_data, putOk) ==
  IF row_data = <<>>
  THEN [res |-> Err("CacheWriteFailed"), reqs |-> <<>>, store |-> st]
  ELSE PutAllRows(st, table_name, family_name, row_data, putOk, <<>>)

\* put_row_data that reports success for an empty row_data.
put_row_data_ok_when_empty(st, table_name, family_name, row_data, putOk) ==
  IF row_data = <<>>
  THEN [res |-> Ok(<<>>), reqs |-> <<>>, store |-> st]
  ELSE LET data == row_data[1][2]
           full_key == StorageKey(table_name, row_data[1][1])
           object == [body |-> ConcatValues(data), family |-> family_name,
                      encoding |-> EncodingTag(data)]
       IN  [res |-> Ok(<<>>),
            reqs |-> <<PutReq(full_key, object, putOk)>>,
            store |-> IF putOk THEN WriteObject(st, full_key, object) ELSE st]

\* putOk: whether the backend put succeeds.  The body of the loop returns
\* in its first iteration; the result of send() is discarded.
put_row_data(st, table_name, family_name, row_data, putOk) ==
  IF row_data = <<>>
  THEN [res |-> Err("CacheWriteFailed"), reqs |-> <<>>, store |-> st]
  ELSE LET key == row_data[1][1]
           data == row_data[1][2]
           full_key == StorageKey(table_name, key)
           object == [body |-> ConcatValues(data), family |-> family_name,
                      encoding |-> EncodingTag(data)]
       IN  [res |-> Ok(<<>>),
            reqs |-> <<PutReq(full_key, object, putOk)>>,
            store |-> IF putOk THEN WriteObject(st, full_key, object) ELSE st]

---------------------------------------------------------------------------
(* S3Cache::new                                                            *)

\* String::is_empty
is_empty(str) == str = <<>>

\* static PROVIDER_NAME
PROVIDER_NAME == "Wasabi"

\* When an input is empty the constructor logs "Not using S3 cache" and
\* builds InitializationFailed values as expression statements; none of
\* them is returned, so control reaches the construction of the handle for
\* every input.
new(access_key, secret_key, endpoint, bucket, region, prefix) ==
  LET not_using ==
        is_empty(access_key) \/ is_empty(secret_key) \/ is_empty(endpoint)
          \/ is_empty(bucket) \/ is_empty(region) \/ is_empty(prefix)
      dropped == IF not_using THEN Err("InitializationFailed") ELSE None
  IN  Ok(Some([access_key |-> access_key, secret_key |-> secret_key,
               endpoint |-> endpoint, bucket |-> bucket,
               region |-> Some(region), provider_name |-> Some(PROVIDER_NAME),
               prefix |-> prefix]))

---------------------------------------------------------------------------
(* The handlers as actions.  A handle serves one call at a time (&mut      *)
(* self); op, args, res and reqs describe the call that has just returned. *)

Families == {"x"}

\* The row contents written while the listing operations are exercised.
PlainData == {<< <<"c", <<1>> >> >>}

\* The rows the write path is exercised on: one-character row keys, and a
\* row without columns or with two columns in either order.
WriteKeys == {k \in RowKeys : Len(k) = 1}

WriteData ==
  {<<>>, << <<"c", <<1>> >>, <<"d", <<2>> >> >>, << <<"d", <<2>> >>, <<"c", <<1>> >> >>}

SeqsUpTo(S, n) == UNION {[1 .. m -> S] : m \in 0 .. n}

Faults(n) ==
  {[at |-> 0, kind |-> "none"]} \cup
  {[at |-> i, kind |-> k] : i \in 1 .. n, k \in FaultKinds}

\* The keys a caller may hold: row keys, and whatever a listing returned.
ListedKeys ==
  {DecodeKey(StorageKey(t2, k), ListPrefix(t1)) :
     <<t1, t2, k>> \in {x \in Tables \X Tables \X RowKeys :
                          StartsWith(StorageKey(x[2], x[3]), ListPrefix(x[1]))}}

QueryKeys == (RowKeys \cup ListedKeys) \ {<<>>}

Init ==
  /\ store = <<>>
  /\ op = "none"
  /\ args = <<>>
  /\ res = <<>>
  /\ reqs = <<>>

PutRowData(Keys, Datas) ==
  /\ op = "none"
  /\ \E table_name \in Tables, family_name \in Families,
        row_data \in SeqsUpTo(Keys \X Datas, MaxRows), putOk \in BOOLEAN :
       LET r == put_row_data(store, table_name, family_name, row_data, putOk)
       IN  /\ Cardinality(DOMAIN r.store) <= MaxObjects
           /\ store' = r.store
           /\ op' = "put_row_data"
           /\ args' = [table_name |-> table_name, family_name |-> family_name,
                       row_data |-> row_data]
           /\ res' = r.res
           /\ reqs' = r.reqs

GetKeys ==
  /\ op = "none"
  /\ \E table_name \in Tables, start_at \in KeyBounds, end_at \in KeyBounds,
        keys_limit \in Limits, listOk \in BOOLEAN :
       LET r == get_keys(store, table_name, start_at, end_at, keys_limit, listOk)
       IN  /\ op' = "get_keys"
           /\ args' = [table_name |-> table_name, start_at |-> start_at,
                       end_at |-> end_at, limit |-> keys_limit]
           /\ res' = r.res
           /\ reqs' = r.reqs
           /\ UNCHANGED store

GetRowKeys ==
  /\ op = "none"
  /\ \E table_name \in Tables, start_at \in KeyBounds, end_at \in KeyBounds,
        rows_limit \in Limits, listOk \in BOOLEAN :
       LET r == get_row_keys(store, table_name, start_at, end_at, rows_limit, listOk)
       IN  /\ op' = "get_row_keys"
           /\ args' = [table_name |-> table_name, start_at |-> start_at,
                       end_at |-> end_at, limit |-> rows_limit]
           /\ res' = r.res
           /\ reqs' = r.reqs
           /\ UNCHANGED store

RowKeyExists ==
  /\ op = "none"
  /\ \E table_name \in Tables, row_key \in QueryKeys, listOk \in BOOLEAN :
       LET r == row_key_exists(store, table_name, row_key, listOk)
       IN  /\ op' = "row_key_exists"
           /\ args' = [table_name |-> table_name, row_key |-> row_key]
           /\ res' = r.res
           /\ reqs' = r.reqs
           /\ UNCHANGED store

GetSingleRowData ==
  /\ op = "none"
  /\ \E table_name \in Tables, row_key \in RowKeys,
        fault \in {"none"} \cup FaultKinds :
       LET r == get_single_row_data(store, table_name, row_key, fault)
       IN  /\ op' = "get_single_row_data"
           /\ args' = [table_name |-> table_name, row_key |-> row_key]
           /\ res' = r.res
           /\ reqs' = r.reqs
           /\ UNCHANGED store

GetMultiRowData ==
  /\ op = "none"
  /\ \E table_name \in Tables, row_keys \in SeqsUpTo(RowKeys, MaxBatch),
        fault \in Faults(MaxBatch) :
       LET r == get_multi_row_data(store, table_name, row_keys, fault)
       IN  /\ op' = "get_multi_row_data"
           /\ args' = [table_name |-> table_name, row_keys |-> row_keys]
           /\ res' = r.res
           /\ reqs' = r.reqs
           /\ UNCHANGED store

GetRowData ==
  /\ op = "none"
  /\ \E table_name \in Tables, start_at \in KeyBounds, end_at \in KeyBounds,
        rows_limit \in Limits, listOk \in BOOLEAN, fault \in Faults(MaxLimit) :
       LET r == get_row_data(store, table_name, start_at, end_at, rows_limit,
                             listOk, fault)
       IN  /\ op' = "get_row_data"
           /\ args' = [table_name |-> table_name, start_at |-> start_at,
                       end_at |-> end_at, limit |-> rows_limit]
           /\ res' = r.res
           /\ reqs' = r.reqs
           /\ UNCHANGED store

\* Each configuration input is either empty or set.
ConfigValues == {<<>>, <<Ascii.b>>}

New ==
  /\ op = "none"
  /\ \E access_key \in ConfigValues, secret_key \in ConfigValues,
        endpoint \in ConfigValues, bucket \in ConfigValues,
        region \in ConfigValues, prefix \in ConfigValues :
       /\ op' = "new"
       /\ args' = [access_key |-> access_key, secret_key |-> secret_key,
                   endpoint |-> endpoint, bucket |-> bucket,
                   region |-> region, prefix |-> prefix]
       /\ res' = new(access_key, secret_key, endpoint, bucket, region, prefix)
       /\ reqs' = <<>>
       /\ UNCHANGED store

\* The key codec applied to one (prefix, table, row key): the storage key is
\* built as put_row_data and get_single_row_data build it, then decoded as
\* get_keys decodes a listed key.
CodecChars == {Ascii.slash, Ascii.b, Ascii.p, Ascii.t}

RECURSIVE CodecStrings(_)
CodecStrings(n) ==
  IF n = 0 THEN {<<>>}
  ELSE LET shorter == CodecStrings(n - 1)
       IN  shorter \cup {Append(s, c) : s \in shorter, c \in CodecChars}

CodecPrefixes == {<<Ascii.p>>, <<Ascii.b>>}

CodecRowKeys == CodecStrings(MaxCodecLen) \ {<<>>}

InitCodec ==
  /\ store = <<>>
  /\ op = "input"
  /\ args \in [prefix : CodecPrefixes, table_name : Tables,
                row_key : CodecRowKeys]
  /\ res = <<>>
  /\ reqs = <<>>

EncodeKey ==
  /\ op = "input"
  /\ op' = "encode"
  /\ res' = format_key(args.prefix, args.table_name, args.row_key)
  /\ UNCHANGED <<store, args, reqs>>

DecodeListedKey ==
  /\ op = "encode"
  /\ op' = "decode"
  /\ res' = DecodeKey(res, format_prefix(args.prefix, args.table_name))
  /\ UNCHANGED <<store, args, reqs>>

\* previous_alphanumeric applied to one input string.
PredChars ==
  {Ascii.zero, Ascii.nine, Ascii.a, Ascii.b, Ascii.z, Ascii.A, Ascii.Z}

RECURSIVE PredStrings(_)
PredStrings(n) ==
  IF n = 0 THEN {<<>>}
  ELSE LET shorter == PredStrings(n - 1)
       IN  shorter \cup {Append(s, c) : s \in shorter, c \in PredChars}

InitPred ==
  /\ store = <<>>
  /\ op = "input"
  /\ args \in [input : PredStrings(MaxPredLen)]
  /\ res = <<>>
  /\ reqs = <<>>

PreviousAlphanumeric ==
  /\ op = "input"
  /\ op' = "previous_alphanumeric"
  /\ res' = previous_alphanumeric(args.input)
  /\ UNCHANGED <<store, args, reqs>>

\* The call has returned (or unwound): the caller takes the result and the
\* handle is free for the next call.
Return ==
  /\ op # "none"
  /\ op' = "none"
  /\ args' = <<>>
  /\ res' = <<>>
  /\ reqs' = <<>>
  /\ UNCHANGED store

PutPlain == PutRowData(RowKeys, PlainData)

Next ==
  \/ New
  \/ PutPlain
  \/ GetKeys
  \/ GetRowKeys
  \/ RowKeyExists
  \/ GetSingleRowData
  \/ GetMultiRowData
  \/ GetRowData
  \/ Return

Spec == Init /\ [][Next]_vars

\* The listing operations alone.
NextList ==
  \/ PutPlain
  \/ GetKeys
  \/ GetRowKeys
  \/ Return

SpecList == Init /\ [][NextList]_vars

\* The point and multi-row reads alone.
NextRead ==
  \/ PutPlain
  \/ GetSingleRowData
  \/ GetMultiRowData
  \/ Return

SpecRead == Init /\ [][NextRead]_vars

\* The write path with varied row contents, and the point read.
PutVaried == PutRowData(WriteKeys, WriteData)

NextWrite ==
  \/ PutVaried
  \/ GetSingleRowData
  \/ Return

SpecWrite == Init /\ [][NextWrite]_vars

---------------------------------------------------------------------------
(* Properties.                                                             *)

\* The row keys stored in a table: the entries under (Prefix, table_name).
TableKeys(table_name) ==
  {k \in RowKeys : StorageKey(table_name, k) \in DOMAIN store}

IsListing == op \in {"get_keys", "get_row_keys"} /\ res.kind = "Ok"

\* The storage keys the backend listed for the call, in the order received.
Listed == reqs[1].contents

GetReqs == SelectSeq(reqs, LAMBDA r : r.api = "get")

\* C1: the end bound of get_keys is exclusive.  When end_at is a row key
\* stored in the table, the result stops at it: it contains neither end_at
\* nor any key the backend lists after it.
C1_EndExclusive ==
  (/\ op = "get_keys"
   /\ res.kind = "Ok"
   /\ args.end_at # None
   /\ args.end_at[1] \in TableKeys(args.table_name))
  => \A i \in 1 .. Len(res.val) :
       /\ res.val[i] # args.end_at[1]
       /\ LexLess(Listed[i], StorageKey(args.table_name, args.end_at[1]))

\* C2: the start bound of get_keys is inclusive.  For a row key k stored in
\* the table, get_keys(start_at = k, no end, limit >= 1) returns a sequence
\* whose first element is k.
C2_StartInclusive ==
  (/\ op = "get_keys"
   /\ res.kind = "Ok"
   /\ args.start_at # None
   /\ args.start_at[1] \in TableKeys(args.table_name)
   /\ args.end_at = None
   /\ args.limit >= 1)
  => /\ Len(res.val) >= 1
     /\ res.val[1] = args.start_at[1]

\* C3: listing and range operations never cross a table partition.  Every
\* entry that contributes a key to the result of get_keys, get_row_keys or
\* get_row_data for table T is an entry stored under (Prefix, T); no entry
\* of another table contributes.
C3_NoCrossPartition ==
  (op \in {"get_keys", "get_row_keys", "get_row_data"} /\ res.kind = "Ok")
  => \A i \in 1 .. Len(res.val) :
       \E k \in RowKeys : Listed[i] = StorageKey(args.table_name, k)

\* The entry after the accepted ones is the end bound.
EndReached ==
  /\ args.end_at # None
  /\ Len(Listed) > Len(res.val)
  /\ DecodeKey(Listed[Len(res.val) + 1], ListPrefix(args.table_name)) = args.end_at[1]

\* C4: get_keys and get_row_keys return at most `limit` row keys, and fewer
\* than limit only when the backend listed fewer entries than limit or the
\* end bound was reached.
C4_AtMostLimit ==
  IsListing
  => /\ Len(res.val) <= args.limit
     /\ Len(res.val) < args.limit => (Len(Listed) < args.limit \/ EndReached)

\* C4 happens: the table holds more rows than the limit and the listing
\* returned exactly `limit` of them.
C4_Witness ==
  /\ IsListing
  /\ args.limit >= 1
  /\ Cardinality(TableKeys(args.table_name)) > args.limit
  /\ args.start_at = None
  /\ Len(res.val) = args.limit

\* C5: the row keys returned by get_keys are strictly ascending in
\* byte-lexicographic order (ordered, no key twice).
C5_StrictlyAscending ==
  (op = "get_keys" /\ res.kind = "Ok")
  => \A i, j \in 1 .. Len(res.val) : i < j => LexLess(res.val[i], res.val[j])

\* C6: get_keys with no bounds and limit = 1 over a table that holds at
\* least one row returns exactly one key, the smallest row key of the table.
C6_LimitOneSmallest ==
  (/\ op = "get_keys"
   /\ res.kind = "Ok"
   /\ args.start_at = None
   /\ args.end_at = None
   /\ args.limit = 1
   /\ TableKeys(args.table_name) # {})
  => /\ Len(res.val) = 1
     /\ res.val[1] \in TableKeys(args.table_name)
     /\ \A k \in TableKeys(args.table_name) \ {res.val[1]} : LexLess(res.val[1], k)

\* The listing the existence check is specified by: table T, start-after
\* Prefix/T/Predecessor(k), at most one result, decoded.
AnchoredListing(table_name, k) ==
  LET pfx == ListPrefix(table_name)
      contents == list_objects_v2(store, pfx,
                    pfx \o <<Ascii.slash>> \o previous_alphanumeric(k), 1)
  IN  [i \in 1 .. Len(contents) |-> DecodeKey(contents[i], pfx)]

\* C7: row_key_exists(T, k) is true if and only if the listing of T
\* anchored just before k returns exactly k as its first result.
C7_ExistsIffAnchoredListing ==
  (op = "row_key_exists" /\ res.kind = "Ok")
  => (res.val <=>
        LET listing == AnchoredListing(args.table_name, args.row_key)
        IN  Len(listing) >= 1 /\ listing[1] = args.row_key)

\* C8: for a row key that is not present in the table, row_key_exists
\* returns Ok(false) whenever the backend listing itself succeeds.
C8_AbsentIsFalse ==
  (/\ op = "row_key_exists"
   /\ reqs[1].ok
   /\ StorageKey(args.table_name, args.row_key) \notin DOMAIN store)
  => res = Ok(FALSE)

\* C9: batch reads are all-or-nothing.  If any point fetch of
\* get_multi_row_data or get_row_data fails, the operation returns
\* CacheReadFailed; it returns Ok only when every point fetch succeeded.
C9_AllOrNothing ==
  (op \in {"get_multi_row_data", "get_row_data"})
  => /\ (\E i \in 1 .. Len(GetReqs) : GetReqs[i].out # "ok")
          => res = Err("CacheReadFailed")
     /\ res.kind = "Ok"
          => \A i \in 1 .. Len(GetReqs) : GetReqs[i].out = "ok"

\* C10: get_single_row_data for a row key with no stored object returns
\* CacheReadFailed, never an Ok result; any error of the backend get is
\* reported as CacheReadFailed as well.
C10_AbsentIsReadFailure ==
  (/\ op = "get_single_row_data"
   /\ \/ StorageKey(args.table_name, args.row_key) \notin DOMAIN store
      \/ reqs[1].out \in {"notfound", "error"})
  => res = Err("CacheReadFailed")

\* C10 happens: a point read of a row that is absent from a table that holds
\* another row.
C10_Witness ==
  /\ op = "get_single_row_data"
  /\ TableKeys(args.table_name) # {}
  /\ args.row_key \notin TableKeys(args.table_name)
  /\ reqs[1].out = "notfound"
  /\ res = Err("CacheReadFailed")

\* The storage key of the first entry of the row_data a put was called with.
FirstKey(a) == StorageKey(a.table_name, a.row_data[1][1])

\* C11: put_row_data with a non-empty row_data writes only the first entry
\* and reports success: it issues exactly one backend put, for the storage
\* key of the first entry, returns Ok(()), and leaves every other storage
\* key unchanged.
C11_WritesOnlyFirstEntry ==
  [][(op' = "put_row_data" /\ args'.row_data # <<>>)
       => /\ res' = Ok(<<>>)
          /\ Len(reqs') = 1
          /\ reqs'[1].api = "put"
          /\ reqs'[1].key = FirstKey(args')
          /\ DOMAIN store' \subseteq DOMAIN store \cup {FirstKey(args')}
          /\ \A k \in DOMAIN store \ {FirstKey(args')} :
               k \in DOMAIN store' /\ store'[k] = store[k]]_vars

\* C11 happens: a put of two entries with different keys, the second of
\* which is not stored afterwards, while the first is.
C11_Witness ==
  /\ op = "put_row_data"
  /\ Len(args.row_data) >= 2
  /\ args.row_data[2][1] # args.row_data[1][1]
  /\ res = Ok(<<>>)
  /\ FirstKey(args) \in DOMAIN store
  /\ StorageKey(args.table_name, args.row_data[2][1]) \notin DOMAIN store

\* C12: when the backend put of the entry attempted by put_row_data fails,
\* put_row_data returns CacheWriteFailed, never Ok(()).
C12_PutFailureReported ==
  (op = "put_row_data" /\ Len(reqs) >= 1 /\ ~reqs[1].ok)
  => res = Err("CacheWriteFailed")

\* C20: put_row_data called with an empty row_data issues no backend put,
\* leaves the store unchanged and returns Err(CacheWriteFailed).
C20_EmptyPutFails ==
  [][(op' = "put_row_data" /\ args'.row_data = <<>>)
       => /\ reqs' = <<>>
          /\ store' = store
          /\ res' = Err("CacheWriteFailed")]_vars

\* C20 happens: an empty put against a store that holds a row.
C20_Witness ==
  /\ op = "put_row_data"
  /\ args.row_data = <<>>
  /\ DOMAIN store # {}
  /\ res = Err("CacheWriteFailed")

\* The batch reads: multi-row and range, over rows written under single
\* characters and under keys free of the separator.
BatchWriteKeys ==
  {k \in RowKeys : Len(k) = 1 \/ \A i \in 1 .. Len(k) : k[i] # Ascii.slash}

PutBatch == PutRowData(BatchWriteKeys, PlainData)

NextBatch ==
  \/ PutBatch
  \/ GetMultiRowData
  \/ GetRowData
  \/ Return

SpecBatch == Init /\ [][NextBatch]_vars

NextCodec == EncodeKey \/ DecodeListedKey

SpecCodec == InitCodec /\ [][NextCodec]_vars

NextPred == PreviousAlphanumeric

SpecPred == InitPred /\ [][NextPred]_vars

\* The six inputs of a call of new.
ConfigInputs(a) ==
  {a.access_key, a.secret_key, a.endpoint, a.bucket, a.region, a.prefix}

\* C13: construction rejects partial configuration.  If any of the six
\* inputs of new is empty, new returns InitializationFailed and no handle;
\* a handle is returned only when all six are non-empty.
C13_RejectsPartialConfig ==
  (op = "new")
  => /\ (\E v \in ConfigInputs(args) : is_empty(v))
          => res = Err("InitializationFailed")
     /\ res.kind = "Ok" => \A v \in ConfigInputs(args) : ~is_empty(v)

\* C18: when the backend get succeeds and collecting the response body
\* fails, get_single_row_data, and with it get_multi_row_data and
\* get_row_data, returns Err(CacheReadFailed); it neither aborts nor
\* returns Ok.
C18_BodyFailureIsReadFailure ==
  (/\ op \in {"get_single_row_data", "get_multi_row_data", "get_row_data"}
   /\ \E i \in 1 .. Len(GetReqs) : GetReqs[i].out = "bodyerr")
  => res = Err("CacheReadFailed")

\* pat occurs in s as a contiguous substring.
Contains(s, pat) ==
  \E i \in 1 .. Len(s) - Len(pat) + 1 : SubSeq(s, i, i + Len(pat) - 1) = pat

\* C14: key codec round trip.  For every prefix, table and non-empty row
\* key that does not contain prefix + "/" + table, building the storage key
\* and decoding it as get_keys does gives back the row key exactly, row keys
\* that begin with "/" included.
C14_CodecRoundTrip ==
  (/\ op = "decode"
   /\ ~Contains(args.row_key, format_prefix(args.prefix, args.table_name)))
  => res = args.row_key

\* A key made only of lowercase letters.
IsLowercaseKey(k) ==
  k # <<>> /\ \A i \in 1 .. Len(k) : is_ascii_lowercase(k[i])

\* The positions of k holding a letter greater than 'a'.
AboveA(k) ==
  {i \in 1 .. Len(k) : is_ascii_alphabetic(k[i]) /\ k[i] > Ascii.a}

\* The rightmost position of k holding a letter greater than 'a', 0 if none.
StopAt(k) ==
  IF AboveA(k) = {} THEN 0
  ELSE CHOOSE i \in AboveA(k) : \A j \in AboveA(k) : j <= i

ReferencePredecessor(k) ==
  IF \A i \in 1 .. Len(k) : k[i] = Ascii.zero THEN <<>>
  ELSE [i \in 1 .. Len(k) |->
          IF i < StopAt(k) THEN k[i]
          ELSE IF i = StopAt(k) THEN k[i] - 1
          ELSE IF k[i] \in Ascii.a .. Ascii.z THEN Ascii.z
          ELSE IF k[i] \in Ascii.A .. Ascii.Z THEN Ascii.nine
          ELSE k[i]]

\* C16: previous_alphanumeric agrees with the reference algorithm on every
\* string of digits, lowercase and uppercase letters: all '0' gives the
\* empty string, non-letters are unchanged, the first letter greater than
\* 'a' met from the right is decremented and ends the scan, and before it
\* each 'a' becomes 'z' and each uppercase letter '9'.
C16_AgreesWithReference ==
  (op = "previous_alphanumeric") => res = ReferencePredecessor(args.input)

C16_Witness ==
  /\ op = "previous_alphanumeric"
  /\ args.input = <<Ascii.b, Ascii.A, Ascii.nine>>
  /\ res = <<Ascii.a, Ascii.nine, Ascii.nine>>

\* The row keys a batch read is to fetch, in order: the input keys of
\* get_multi_row_data, the keys get_keys returned for get_row_data.
BatchKeys ==
  IF op = "get_multi_row_data" THEN args.row_keys
  ELSE IF reqs[1].ok
  THEN get_keys(store, args.table_name, args.start_at, args.end_at,
                args.limit, TRUE).res.val
  ELSE <<>>

\* C17: multi-row and range reads fetch sequentially.  The backend gets of
\* get_multi_row_data and get_row_data are issued one at a time in the
\* order of the keys, each after the previous one succeeded; no get follows
\* the first failing one; on success the result holds one (key, row) entry
\* per key in that order.
C17_SequentialFetch ==
  (op \in {"get_multi_row_data", "get_row_data"})
  => LET n == Len(GetReqs)
     IN  /\ n <= Len(BatchKeys)
         /\ \A i \in 1 .. n :
              GetReqs[i].key = StorageKey(args.table_name, BatchKeys[i])
         /\ \A i \in 1 .. n - 1 : GetReqs[i].out = "ok"
         /\ n < Len(BatchKeys) => (n >= 1 /\ GetReqs[n].out # "ok")
         /\ res.kind = "Ok"
              => /\ n = Len(BatchKeys)
                 /\ Len(res.val) = n
                 /\ \A i \in 1 .. n :
                      res.val[i] =
                        <<BatchKeys[i],
                          << <<"proto", store[GetReqs[i].key].body>> >> >>

\* C17 happens: of two stored rows asked for, the first fetch fails and the
\* second is never requested.
C17_Witness ==
  /\ op = "get_multi_row_data"
  /\ Len(args.row_keys) = 2
  /\ args.row_keys[1] # args.row_keys[2]
  /\ \A i \in 1 .. 2 : args.row_keys[i] \in TableKeys(args.table_name)
  /\ Len(GetReqs) = 1
  /\ GetReqs[1].out = "error"
  /\ res = Err("CacheReadFailed")

\* C19: write then read is lossy but deterministic.  A put_row_data that
\* returned Ok with first entry (k, cols) leaves, under the storage key of
\* (T, k), the concatenation of the values of cols in sequence order,
\* replacing what was there; and get_single_row_data of a stored row, the
\* backend get succeeding, returns the one column "proto" holding the blob
\* stored last.  The store changes through puts only, so the two together
\* are the read-after-write statement.
C19_WriteThenRead ==
  /\ (op = "put_row_data" /\ res.kind = "Ok")
     => /\ FirstKey(args) \in DOMAIN store
        /\ store[FirstKey(args)].body = ConcatValues(args.row_data[1][2])
  /\ (/\ op = "get_single_row_data"
      /\ reqs[1].out = "ok")
     => res = Ok(<< <<"proto",
                      store[StorageKey(args.table_name, args.row_key)].body>> >>)

====
